---- MODULE Spec2Model ----
(***************************************************************************)
(* NoMoreDM (src/main.rs): a Discord bot that keeps the "DMs disabled"     *)
(* incident action of every guild it is in alive.                          *)
(*                                                                         *)
(* Tasks of the process:                                                   *)
(*   main          reads DISCORD_TOKEN, fills TOKEN, starts the cron       *)
(*                 scheduler and then the gateway client;                  *)
(*   pass p        one run of the cron job closure (one spawned task per   *)
(*                 trigger): locks GUILDS and, for every guild, calls      *)
(*                 enable_security_actions and sleeps 2 seconds; the runs  *)
(*                 still waiting for the mutex are counted in `blocked`;   *)
(*   handler       one run of Bot::interaction_create (the runs share no   *)
(*                 state with one another: one of them is followed);       *)
(*   joiners       the runs of Bot::guild_create: the events whose task    *)
(*                 waits for the GUILDS mutex are the bag `pending`.       *)
(* The remote endpoint, the gateway and the process environment are the    *)
(* model's inputs: every response, event and environment is drawn from a   *)
(* small set.                                                              *)
(***************************************************************************)
EXTENDS Integers, Sequences, FiniteSets

\* ------------------------------------------------------------------ bounds
MaxPasses == 2      \* cron job tasks that can exist at the same time
MaxJoins == 2       \* guild_create events

\* ------------------------------------------------------- program constants
MaxUtc == 2         \* seconds the wall clock runs on after the first instant
MaxApply == 2       \* requests looked at per guild
DELAY_SECS == 2     \* tokio::time::Duration::from_secs(2)
DAY_SECS == 86400   \* chrono::Duration::days(1), in seconds

Passes == 1..MaxPasses
GuildIds == 1..MaxJoins
NoGuild == 0        \* interaction.guild_id = None

\* ------------------------------------------------------------ environment
\* env::var("DISCORD_TOKEN"): the variable is absent, is not valid unicode,
\* or holds a string (possibly the empty one).
Environments ==
  { [kind |-> "absent", val |-> <<>>],
    [kind |-> "not_unicode", val |-> <<>>],
    [kind |-> "set", val |-> <<>>],
    [kind |-> "set", val |-> <<"T", "1">>] }

\* A missing variable read as the empty string (unwrap_or_default).
EnvVarOrEmpty(e) == [some |-> TRUE, val |-> e.val]

\* env::var(..).ok(): Some(value) only for a present, valid unicode value.
EnvVarOk(e) ==
  IF e.kind = "set" THEN [some |-> TRUE, val |-> e.val]
  ELSE [some |-> FALSE, val |-> <<>>]

\* String::push_str
PushStr(s, t) == s \o t

\* --------------------------------------------------------- remote endpoint
\* What the remote endpoint can answer to one POST. The body is JSON text;
\* a JSON field is missing, null, a number or a string.
JsonValues ==
  { [kind |-> "missing", str |-> <<>>],
    [kind |-> "null", str |-> <<>>],
    [kind |-> "number", str |-> <<>>],
    [kind |-> "string", str |-> <<>>],
    [kind |-> "string", str |-> <<"t">>] }

Responses ==
  { [send |-> "failed", json |-> FALSE, dms |-> v] :
      v \in {[kind |-> "missing", str |-> <<>>]} }
  \cup { [send |-> "ok", json |-> FALSE, dms |-> v] :
      v \in {[kind |-> "missing", str |-> <<>>]} }
  \cup { [send |-> "ok", json |-> TRUE, dms |-> v] : v \in JsonValues }

\* Result<bool, Error>
OkBool(b) == [ok |-> TRUE, val |-> b]
Err == [ok |-> FALSE, val |-> FALSE]
IsErr(res) == ~res.ok

\* serde: Option<String> accepts a missing field and null as None, a string
\* as Some(string), and fails on anything else.
DeserializeOptString(v) ==
  CASE v.kind \in {"missing", "null"} -> [ok |-> TRUE, some |-> FALSE, str |-> <<>>]
    [] v.kind = "string" -> [ok |-> TRUE, some |-> TRUE, str |-> v.str]
    [] OTHER -> [ok |-> FALSE, some |-> FALSE, str |-> <<>>]

\* enable_security_actions, from the response on: `send().await?`,
\* `res.json::<IncidentAction>().await?`, then dms_disabled_until.is_some().
EnableSecurityActionsResult(resp) ==
  IF resp.send # "ok" THEN Err
  ELSE IF ~resp.json THEN Err
  ELSE LET d == DeserializeOptString(resp.dms) IN
       IF ~d.ok THEN Err
       ELSE IF d.some THEN OkBool(TRUE) ELSE OkBool(FALSE)

\* Result::unwrap_err panics on an Ok value.
UnwrapErrPanics(res) == res.ok

\* The cron closure without the `if res.is_err()` guard around unwrap_err.
CronJobOutcomeUnguarded(res) ==
  IF IsErr(res) \/ ~res.val
  THEN IF UnwrapErrPanics(res) THEN "panic" ELSE "sleep"
  ELSE "sleep"

\* Cron closure, after the call: log the failure (unwrap_err only under
\* `if res.is_err()`), log, then sleep.
CronJobOutcome(res) ==
  IF IsErr(res) \/ ~res.val
  THEN IF IsErr(res)
       THEN IF UnwrapErrPanics(res) THEN "panic" ELSE "sleep"
       ELSE "sleep"
  ELSE "sleep"

\* interaction_create with the two reports exchanged.
InteractionOutcomeSwapped(res) ==
  IF IsErr(res) \/ ~res.val
  THEN IF UnwrapErrPanics(res) THEN "panic" ELSE "report_success"
  ELSE "report_error"

\* interaction_create, after the call: on Err or Ok(false) it logs
\* `res.unwrap_err()` and then edits the response into the "Error" embed;
\* otherwise it edits the response into the "Success" embed.
InteractionOutcome(res) ==
  IF IsErr(res) \/ ~res.val
  THEN IF UnwrapErrPanics(res) THEN "panic" ELSE "report_error"
  ELSE "report_success"

\* A sleep of no duration.
SleepOverAtOnce(elapsed) == TRUE

\* tokio::time::sleep(Duration::from_secs(2)) is over once 2 seconds elapsed.
SleepOver(elapsed) == elapsed >= DELAY_SECS

\* Elapsed time is only ever compared with the delay: it is counted up to it.
Elapse(t) == IF t < DELAY_SECS THEN t + 1 ELSE t

\* An iterator that steps over every other element.
IterNextSkipping(v, idx) ==
  IF idx < Len(v)
  THEN [some |-> TRUE, item |-> v[idx + 1], idx |-> idx + 2]
  ELSE [some |-> FALSE, item |-> NoGuild, idx |-> idx]

\* slice::Iter::next over the locked Vec, idx items already consumed.
IterNext(v, idx) ==
  IF idx < Len(v)
  THEN [some |-> TRUE, item |-> v[idx + 1], idx |-> idx + 1]
  ELSE [some |-> FALSE, item |-> NoGuild, idx |-> idx]

\* chrono::Utc::now(), in seconds. The clock is looked at from one second
\* before a midnight on, so that the date of the timestamps changes.
FirstInstant == DAY_SECS - 1
LastInstant == FirstInstant + MaxUtc

\* DateTime::to_rfc3339: the date and the time of day, in UTC.
ToRfc3339(t) == [date |-> t \div DAY_SECS, time |-> t % DAY_SECS]

NoneString == [some |-> FALSE, str |-> ToRfc3339(0)]
SomeString(str) == [some |-> TRUE, str |-> str]

\* A request that asks for an expiry of now.
RequestBodyNoDay(now) ==
  [invites_disabled_until |-> NoneString,
   dms_disabled_until |-> SomeString(ToRfc3339(now))]

\* The IncidentAction enable_security_actions sends.
RequestBody(now) ==
  [invites_disabled_until |-> NoneString,
   dms_disabled_until |-> SomeString(ToRfc3339(now + DAY_SECS))]

\* A mutex that lets every task in.
MutexFreeAlways(holder) == TRUE

\* tokio::sync::Mutex: lock().await returns once no task holds the guard.
MutexFree(holder) == holder = 0

\* A loop that does not sleep after the last guild.
SleepsAfterExceptLast(idx, len) == idx < len

\* The loop body ends with the sleep, whatever the position of the guild.
SleepsAfter(idx, len) == TRUE

\* A handler that takes its guild from the registry.
InteractionCallGuildFirst(g, v) == IF v # <<>> THEN v[1] ELSE g

\* enable_security_actions(guild_id): the guild of the command.
InteractionCallGuild(g, v) == g

\* A registry that takes the new guild at its head.
VecPushFront(v, g) == <<g>> \o v

\* A registry that keeps only the newest guild.
VecPushOverwrite(v, g) == <<g>>

\* Vec::push
VecPush(v, g) == Append(v, g)

\* ------------------------------------------------------------------ state
VARIABLES
  env,        \* the process environment's DISCORD_TOKEN
  mainpc,     \* where main is: "boot", "token_set", "sched_started",
              \* "serving" or "panicked" (the process is gone)
  TOKEN,      \* static TOKEN: the string inside the mutex
  GUILDS,     \* static GUILDS: the Vec inside the mutex
  guildsLock, \* the task holding the GUILDS mutex: 0 or a pass
  blocked,    \* cron job tasks waiting in GUILDS.lock().await
  pass,       \* pass[p]: the state of cron job task p, past the lock
  handler,    \* the state of the interaction_create task
  pending,    \* pending[g]: guild_create tasks for g waiting for the mutex
  arrived,    \* history: arrived[g] counts the GuildCreate events for g
  sinceCron,  \* history: the time since the last call of a pass returned,
              \* -1 when none has, or since, one started
  utc,        \* the wall clock, in seconds
  sent        \* history: sent[g] is the request bodies built for guild g,
              \* each with the instant it was built at

vars ==
  <<env, mainpc, TOKEN, GUILDS, guildsLock, blocked, pass, handler, pending,
    arrived, sinceCron, utc, sent>>

\* pc: "idle" (no task), "iter" (at the loop head, lock held), "inflight"
\* (the call is awaiting the response), "sleep", "panicked".
\* idx is the iterator's position and slept the time since the current sleep
\* began. The rest is history: snap is the Vec as the pass found it when it
\* got the lock, calls the calls it started (guild, token, the time since
\* the call before returned, and the same over all passes), returned the
\* number of calls that returned and
\* failure the first of them that did not return Ok(true) (at = 0: none).
PassIdle ==
  [pc |-> "idle", idx |-> 0, slept |-> 0, snap |-> <<>>, calls |-> <<>>,
   returned |-> 0, failure |-> [at |-> 0, res |-> OkBool(TRUE)]]

NoResponse ==
  [send |-> "none", json |-> FALSE, dms |-> [kind |-> "missing", str |-> <<>>]]

\* pc: "idle", "returned" (ignored), "acked", "inflight", "result", "done",
\* "panicked". trace is history: the handler's outward steps in order; resp
\* is history too: the response the call got, until the report is made; so
\* is called: the guilds of the calls the handler started.
HandlerIdle ==
  [pc |-> "idle", guild |-> NoGuild, tok |-> <<>>, resp |-> NoResponse,
   res |-> Err, trace |-> <<>>, called |-> <<>>]

\* The sum of a bag given as a function over the guild ids.
RECURSIVE SumOver(_, _)
SumOver(f, S) ==
  IF S = {} THEN 0
  ELSE LET x == CHOOSE y \in S : TRUE IN f[x] + SumOver(f, S \ {x})

Init ==
  /\ env \in Environments
  /\ mainpc = "boot"
  /\ TOKEN = <<>>
  /\ GUILDS = <<>>
  /\ guildsLock = 0
  /\ blocked = 0
  /\ pass = [p \in Passes |-> PassIdle]
  /\ handler = HandlerIdle
  /\ pending = [g \in GuildIds |-> 0]
  /\ arrived = [g \in GuildIds |-> 0]
  /\ sinceCron = -1
  /\ utc = FirstInstant
  /\ sent = [g \in GuildIds |-> <<>>]

\* The process is running; a panic in main ends it and every task with it.
Alive == mainpc # "panicked"
SchedulerStarted == mainpc \in {"sched_started", "serving"}
Serving == mainpc = "serving"

\* Task slots are interchangeable: a new task takes the lowest free one.
LowestFree(free, t) == t \in free /\ \A u \in free : t <= u

\* ------------------------------------------------------------------- time
\* One second passes.
Tick ==
  /\ Alive
  /\ pass' = [p \in Passes |->
       [pass[p] EXCEPT !.slept = IF pass[p].pc = "sleep" THEN Elapse(@) ELSE @]]
  /\ sinceCron' = IF sinceCron >= 0 THEN Elapse(sinceCron) ELSE sinceCron
  /\ UNCHANGED <<env, mainpc, TOKEN, GUILDS, guildsLock, blocked, handler, pending, arrived, utc, sent>>

\* ------------------------------------------------------------------- main
\* main up to TOKEN.lock().await.push_str(&token): panics when the variable
\* gives no value.
MainReadToken ==
  /\ mainpc = "boot"
  /\ LET t == EnvVarOk(env) IN
       IF t.some
       THEN /\ TOKEN' = PushStr(TOKEN, t.val)
            /\ mainpc' = "token_set"
       ELSE /\ mainpc' = "panicked"
            /\ UNCHANGED TOKEN
  /\ UNCHANGED <<env, GUILDS, guildsLock, blocked, pass, handler, pending, arrived, sinceCron, utc, sent>>

\* Client::builder, sched.add(job) and sched.start()
MainSchedStart ==
  /\ mainpc = "token_set"
  /\ mainpc' = "sched_started"
  /\ UNCHANGED <<env, TOKEN, GUILDS, guildsLock, blocked, pass, handler, pending, arrived, sinceCron, utc, sent>>

\* client.start_autosharded() connects: gateway events start to arrive.
MainClientStart ==
  /\ mainpc = "sched_started"
  /\ mainpc' = "serving"
  /\ UNCHANGED <<env, TOKEN, GUILDS, guildsLock, blocked, pass, handler, pending, arrived, sinceCron, utc, sent>>

\* client.start_autosharded() returns an error instead: `.unwrap()` panics
\* in main. (A later return of start_autosharded ends the process the same
\* way; it only cuts a behaviour short.)
MainClientFails ==
  /\ mainpc = "sched_started"
  /\ mainpc' = "panicked"
  /\ UNCHANGED <<env, TOKEN, GUILDS, guildsLock, blocked, pass, handler, pending, arrived, sinceCron, utc, sent>>

\* ------------------------------------------------------------ guild_create
\* Guild ids are opaque: a guild not announced before gets the lowest id not
\* in use.
Nameable(g) == \A f \in GuildIds : f < g => arrived[f] > 0

\* The gateway delivers a GuildCreate event: the handler task starts and
\* waits for the GUILDS mutex.
GuildCreate(g) ==
  /\ Alive /\ Serving
  /\ SumOver(arrived, GuildIds) < MaxJoins
  /\ Nameable(g)
  /\ pending' = [pending EXCEPT ![g] = @ + 1]
  /\ arrived' = [arrived EXCEPT ![g] = @ + 1]
  /\ UNCHANGED <<env, mainpc, TOKEN, GUILDS, guildsLock, blocked, pass, handler, sinceCron, utc, sent>>

\* GUILDS.lock().await.push(guild.id): the guard is dropped at the end of
\* the statement, so lock, push and unlock are one step once the mutex is free.
GuildCreatePush(g) ==
  /\ Alive
  /\ pending[g] > 0
  /\ MutexFree(guildsLock)
  /\ GUILDS' = VecPush(GUILDS, g)
  /\ pending' = [pending EXCEPT ![g] = @ - 1]
  /\ UNCHANGED <<env, mainpc, TOKEN, guildsLock, blocked, pass, handler, arrived, sinceCron, utc, sent>>

\* ------------------------------------------------------------ the cron job
\* The scheduler triggers the job: a new task runs the closure and waits for
\* the GUILDS mutex. (The cron expression "1/7 * * * * *" fixes the instants;
\* here any instant may be one.)
CronFire ==
  /\ Alive /\ SchedulerStarted
  /\ blocked + Cardinality({p \in Passes : pass[p].pc # "idle"}) < MaxPasses
  /\ blocked' = blocked + 1
  /\ UNCHANGED <<env, mainpc, TOKEN, GUILDS, guildsLock, pass, handler, pending, arrived, sinceCron, utc, sent>>

\* GUILDS.lock().await in the head of the for loop returns the guard, a
\* temporary of the iterator expression that lives until the loop ends.
PassLock(p) ==
  /\ Alive
  /\ blocked > 0
  /\ MutexFree(guildsLock)
  /\ LowestFree({q \in Passes : pass[q].pc = "idle"}, p)
  /\ blocked' = blocked - 1
  /\ guildsLock' = p
  /\ pass' = [pass EXCEPT ![p] = [PassIdle EXCEPT !.pc = "iter", !.snap = GUILDS]]
  /\ UNCHANGED <<env, mainpc, TOKEN, GUILDS, handler, pending, arrived, sinceCron, utc, sent>>

\* The loop takes the next guild and enable_security_actions sends its
\* request, with the token cloned out of TOKEN.
PassCallStart(p) ==
  /\ Alive
  /\ pass[p].pc = "iter"
  /\ LET n == IterNext(GUILDS, pass[p].idx) IN
       /\ n.some
       /\ pass' = [pass EXCEPT
            ![p].pc = "inflight",
            ![p].idx = n.idx,
            ![p].calls = Append(@, [guild |-> n.item, tok |-> TOKEN,
                                    gap |-> pass[p].slept,
                                    sinceCron |-> sinceCron])]
  /\ sinceCron' = -1
  /\ UNCHANGED <<env, mainpc, TOKEN, GUILDS, guildsLock, blocked, handler, pending, arrived, utc, sent>>

\* The response (or the failure) arrives; the closure logs and starts to
\* sleep. (A panic would unwind the task and drop the guard.)
PassCallReturn(p, resp) ==
  /\ Alive
  /\ pass[p].pc = "inflight"
  /\ LET res == EnableSecurityActionsResult(resp)
         out == CronJobOutcome(res) IN
       /\ pass' = [pass EXCEPT
            ![p].pc = IF out = "panic" THEN "panicked"
                      ELSE IF SleepsAfter(pass[p].idx, Len(GUILDS)) THEN "sleep"
                      ELSE "iter",
            ![p].slept = 0,
            ![p].returned = @ + 1,
            ![p].failure = IF @.at = 0 /\ res # OkBool(TRUE)
                           THEN [at |-> pass[p].returned + 1, res |-> res]
                           ELSE @]
       /\ guildsLock' = IF out = "panic" THEN 0 ELSE guildsLock
  /\ sinceCron' = 0
  /\ UNCHANGED <<env, mainpc, TOKEN, GUILDS, blocked, handler, pending, arrived, utc, sent>>

\* The sleep is over: back to the loop head.
PassWake(p) ==
  /\ Alive
  /\ pass[p].pc = "sleep"
  /\ SleepOver(pass[p].slept)
  /\ pass' = [pass EXCEPT ![p].pc = "iter"]
  /\ UNCHANGED <<env, mainpc, TOKEN, GUILDS, guildsLock, blocked, handler, pending, arrived, sinceCron, utc, sent>>

\* The iterator is exhausted: the loop ends, the guard is dropped and the
\* task is over.
PassFinish(p) ==
  /\ Alive
  /\ pass[p].pc = "iter"
  /\ ~IterNext(GUILDS, pass[p].idx).some
  /\ guildsLock' = 0
  /\ pass' = [pass EXCEPT ![p] = PassIdle]
  /\ UNCHANGED <<env, mainpc, TOKEN, GUILDS, blocked, handler, pending, arrived, sinceCron, utc, sent>>

\* ------------------------------------------------------ interaction_create
Interactions ==
  [kind : {"component", "command"}, name : {"instant", "other"},
   guild : {NoGuild} \cup GuildIds]

\* An interaction arrives. Not an application command, or not "instant":
\* the handler returns. Otherwise interaction.defer() acknowledges it.
InteractionCreate(i) ==
  /\ Alive /\ Serving
  /\ handler.pc = "idle"
  /\ IF i.kind = "command" /\ i.name = "instant"
     THEN handler' = [handler EXCEPT
            !.pc = "acked", !.guild = i.guild, !.trace = <<"ack">>]
     ELSE handler' = [handler EXCEPT !.pc = "returned"]
  /\ UNCHANGED <<env, mainpc, TOKEN, GUILDS, guildsLock, blocked, pass, pending, arrived, sinceCron, utc, sent>>

\* interaction.guild_id.unwrap(), then enable_security_actions sends its
\* request, with the token cloned out of TOKEN.
InteractionCallStart ==
  /\ Alive
  /\ handler.pc = "acked"
  /\ IF handler.guild = NoGuild
     THEN handler' = [handler EXCEPT !.pc = "panicked"]
     ELSE handler' = [handler EXCEPT
            !.pc = "inflight", !.tok = TOKEN, !.trace = Append(@, "call"),
            !.called = Append(@, InteractionCallGuild(handler.guild, GUILDS))]
  /\ UNCHANGED <<env, mainpc, TOKEN, GUILDS, guildsLock, blocked, pass, pending, arrived, sinceCron, utc, sent>>

\* The response (or the failure) arrives.
InteractionCallReturn(resp) ==
  /\ Alive
  /\ handler.pc = "inflight"
  /\ handler' = [handler EXCEPT
       !.pc = "result", !.resp = resp, !.res = EnableSecurityActionsResult(resp)]
  /\ UNCHANGED <<env, mainpc, TOKEN, GUILDS, guildsLock, blocked, pass, pending, arrived, sinceCron, utc, sent>>

\* The handler logs and edits the original response into its report.
InteractionReport ==
  /\ Alive
  /\ handler.pc = "result"
  /\ LET out == InteractionOutcome(handler.res) IN
       IF out = "panic"
       THEN handler' = [handler EXCEPT !.pc = "panicked", !.resp = NoResponse]
       ELSE handler' = [handler EXCEPT
              !.pc = "done", !.resp = NoResponse, !.trace = Append(@, out)]
  /\ UNCHANGED <<env, mainpc, TOKEN, GUILDS, guildsLock, blocked, pass, pending, arrived, sinceCron, utc, sent>>

\* ------------------------------------------------------------ specification
Next ==
  \/ Tick
  \/ MainReadToken
  \/ MainSchedStart
  \/ MainClientStart
  \/ MainClientFails
  \/ \E g \in GuildIds : GuildCreate(g)
  \/ \E g \in GuildIds : GuildCreatePush(g)
  \/ CronFire
  \/ \E p \in Passes : PassLock(p)
  \/ \E p \in Passes : PassCallStart(p)
  \/ \E p \in Passes, resp \in Responses : PassCallReturn(p, resp)
  \/ \E p \in Passes : PassWake(p)
  \/ \E p \in Passes : PassFinish(p)
  \/ \E i \in Interactions : InteractionCreate(i)
  \/ InteractionCallStart
  \/ \E resp \in Responses : InteractionCallReturn(resp)
  \/ InteractionReport

Spec == Init /\ [][Next]_vars

\* --------------------------------------------------------- the request body
\* The body of the request taken by itself, as a function of the instant
\* enable_security_actions is called at: the wall clock goes on, and calls
\* for any guild build their bodies at any instant.
UtcTick ==
  /\ utc < LastInstant
  /\ utc' = utc + 1
  /\ UNCHANGED <<env, mainpc, TOKEN, GUILDS, guildsLock, blocked, pass, handler,
                 pending, arrived, sinceCron, sent>>

BuildRequest(g) ==
  /\ Len(sent[g]) < MaxApply
  /\ sent' = [sent EXCEPT ![g] = Append(@, [at |-> utc, body |-> RequestBody(utc)])]
  /\ UNCHANGED <<env, mainpc, TOKEN, GUILDS, guildsLock, blocked, pass, handler,
                 pending, arrived, sinceCron, utc>>

BodyNext ==
  \/ UtcTick
  \/ \E g \in GuildIds : BuildRequest(g)

BodySpec == Init /\ [][BodyNext]_vars

\* Time passes, and the runtime runs every task that is ready: the scheduler
\* fires its trigger, a task waiting for a free mutex gets it, a pass and the
\* handler take their next local step. Nothing is assumed of the gateway or
\* of the endpoint: an event may never come, a call may never return.
Scheduling ==
  /\ WF_vars(Tick)
  /\ WF_vars(CronFire)
  /\ WF_vars(\E p \in Passes : PassLock(p))
  /\ WF_vars(\E p \in Passes : PassCallStart(p))
  /\ WF_vars(\E p \in Passes : PassWake(p))
  /\ WF_vars(\E p \in Passes : PassFinish(p))
  /\ WF_vars(\E g \in GuildIds : GuildCreatePush(g))
  /\ WF_vars(InteractionCallStart)
  /\ WF_vars(InteractionReport)

FairSpec == Spec /\ Scheduling

\* The same, and every call of a pass returns.
ReturningSpec ==
  Spec /\ Scheduling
       /\ WF_vars(\E p \in Passes, resp \in Responses : PassCallReturn(p, resp))

\* ------------------------------------------------------------------ claims
Running == {p \in Passes : pass[p].pc # "idle"}

\* The pass is at the loop head with the iterator exhausted: it made all the
\* calls it will make.
AtEnd(p) == pass[p].pc = "iter" /\ ~IterNext(GUILDS, pass[p].idx).some

CallGuilds(p) == [i \in 1..Len(pass[p].calls) |-> pass[p].calls[i].guild]

Count(v, g) == Cardinality({i \in 1..Len(v) : v[i] = g})

\* C1: a pass calls the entries of the registry it locked one by one in
\* insertion order: the calls made so far are the first entries of the
\* registry, the registry is still what the pass found, and a pass that
\* reached the end of the loop has made exactly one call per entry.
PassCallsEveryEntryOnce ==
  \A p \in Running :
    /\ pass[p].snap = GUILDS
    /\ Len(pass[p].calls) <= Len(pass[p].snap)
    /\ CallGuilds(p) = SubSeq(pass[p].snap, 1, Len(pass[p].calls))
    /\ AtEnd(p) => CallGuilds(p) = pass[p].snap

PassOverFullRegistryAtEnd ==
  \E p \in Passes :
    /\ AtEnd(p)
    /\ Len(pass[p].snap) = MaxJoins
    /\ CallGuilds(p) = pass[p].snap

\* C2: a call that ends in Err or Ok(false) does not stop the pass: the task
\* never panics, and at the end of the loop every entry after the failed one
\* has had its call.
PassSurvivesFailedCall ==
  \A p \in Passes :
    /\ pass[p].pc # "panicked"
    /\ (AtEnd(p) /\ pass[p].failure.at > 0) =>
         \A j \in (pass[p].failure.at + 1)..Len(pass[p].snap) :
           /\ j <= Len(pass[p].calls)
           /\ pass[p].calls[j].guild = pass[p].snap[j]

PassWentOnAfterRejected ==
  \E p \in Passes :
    /\ AtEnd(p)
    /\ pass[p].failure = [at |-> 1, res |-> OkBool(FALSE)]
    /\ Len(pass[p].snap) >= 2
    /\ Len(pass[p].calls) = Len(pass[p].snap)

\* C3: when the call of the on-demand handler returns Ok(false), the handler
\* goes on to deliver the error report. (Stated for a process started with a
\* credential.)
RejectedGetsErrorReport ==
  (TOKEN # <<>> /\ handler.res = OkBool(FALSE) /\ handler.pc # "result") =>
    /\ handler.pc = "done"
    /\ handler.trace = <<"ack", "call", "report_error">>

\* C4: in an on-demand invocation the acknowledgment comes first: the call
\* starts after it, a report comes after both, and after Ok(true) the report
\* is the success report.
AckThenCallThenReport ==
  LET tr == handler.trace IN
    /\ tr # <<>> => tr[1] = "ack"
    /\ \A i \in 2..Len(tr) : tr[i] # "ack"
    /\ handler.pc \in {"inflight", "result", "done"} =>
         Len(tr) >= 2 /\ tr[2] = "call"
    /\ \A i \in 1..Len(tr) :
         tr[i] \in {"report_success", "report_error"} => i = 3
    /\ (handler.pc = "done" /\ handler.res = OkBool(TRUE)) =>
         tr = <<"ack", "call", "report_success">>
    /\ (handler.pc = "done" /\ handler.res # OkBool(TRUE)) =>
         tr = <<"ack", "call", "report_error">>

AppliedReportedAsSuccess ==
  /\ handler.pc = "done"
  /\ handler.res = OkBool(TRUE)
  /\ handler.trace = <<"ack", "call", "report_success">>

\* C5: no GuildCreate event is lost or duplicated: every guild is in the
\* registry as many times as it was announced, less the announcements still
\* waiting for the mutex; once none waits, distinct announcements are
\* recorded exactly once each.
RegistryHoldsWhatArrived ==
  /\ \A g \in GuildIds : Count(GUILDS, g) + pending[g] = arrived[g]
  /\ Len(GUILDS) + SumOver(pending, GuildIds) = SumOver(arrived, GuildIds)

DistinctGuildsAllRecorded ==
  /\ \A g \in GuildIds : arrived[g] = 1 /\ pending[g] = 0 /\ Count(GUILDS, g) = 1
  /\ Len(GUILDS) = MaxJoins
  /\ \E p \in Passes : pass[p].returned >= 1

\* C6: within a pass a call starts only when the call before has returned
\* and the delay has elapsed since.
PassPacesItsCalls ==
  \A p \in Running :
    /\ Len(pass[p].calls) =
         pass[p].returned + (IF pass[p].pc = "inflight" THEN 1 ELSE 0)
    /\ \A i \in 2..Len(pass[p].calls) : pass[p].calls[i].gap >= DELAY_SECS

SecondCallAfterDelay ==
  \E p \in Passes :
    /\ Len(pass[p].calls) >= 2
    /\ pass[p].calls[2].gap >= DELAY_SECS

\* C7: without a credential in the environment (the variable is absent or
\* unreadable) main panics before the scheduler and the gateway client start:
\* no pass, no registry append and no call.
NoCredentialNoService ==
  env.kind # "set" =>
    /\ mainpc \in {"boot", "panicked"}
    /\ TOKEN = <<>>
    /\ blocked = 0
    /\ Running = {}
    /\ GUILDS = <<>>
    /\ \A g \in GuildIds : arrived[g] = 0
    /\ handler.pc = "idle"

NoCredentialPanicked == env.kind = "absent" /\ mainpc = "panicked"

\* C8: every call carries a non-empty credential.
CredentialNeverEmptyInCall ==
  /\ \A p \in Passes : \A i \in 1..Len(pass[p].calls) :
       pass[p].calls[i].tok # <<>>
  /\ handler.pc \in {"inflight", "result", "done"} => handler.tok # <<>>

\* The classification the Action Client is to make: TransportFailure (Err) if
\* the send fails or the response cannot be parsed, else Applied (Ok(true))
\* exactly when dms_disabled_until is present and non-empty, else Rejected.
Classification(resp) ==
  IF resp.send # "ok" \/ ~resp.json \/ ~DeserializeOptString(resp.dms).ok
  THEN Err
  ELSE LET d == DeserializeOptString(resp.dms) IN
       OkBool(d.some /\ d.str # <<>>)

\* C9: the result of a call is the classification of its response. (Stated
\* for a process started with a credential.)
ResultIsClassification ==
  (TOKEN # <<>> /\ handler.pc = "result") =>
    handler.res = Classification(handler.resp)

\* C10: an "instant" command without a guild makes no call and does not
\* make the handler panic. (Stated for a process started with a credential.)
NoGuildCommandIgnored ==
  (TOKEN # <<>> /\ handler.guild = NoGuild) =>
    /\ handler.pc # "panicked"
    /\ \A i \in 1..Len(handler.trace) : handler.trace[i] # "call"

InFlight == {p \in Passes : pass[p].pc = "inflight"}

IsPrefix(v, w) == Len(v) <= Len(w) /\ SubSeq(w, 1, Len(v)) = v

\* C11: an "instant" command of a guild makes exactly one call, for the
\* guild of the command, and no step of its handler waits for the GUILDS
\* mutex or for a delay: whoever holds the mutex, an acknowledged command
\* can start its call, a call in flight can return and a result can be
\* reported.
InteractionCallsItsGuildUnlocked ==
  /\ handler.pc \in {"idle", "returned", "acked"} => handler.called = <<>>
  /\ handler.pc \in {"inflight", "result", "done"} =>
       handler.called = <<handler.guild>> /\ handler.guild # NoGuild
  /\ Len(handler.called) <= 1
  /\ handler.pc = "acked" => ENABLED InteractionCallStart
  /\ handler.pc = "inflight" =>
       ENABLED (\E resp \in Responses : InteractionCallReturn(resp))
  /\ handler.pc = "result" => ENABLED InteractionReport

InteractionDoneDuringPassCall ==
  \E p \in Passes :
    /\ pass[p].pc = "inflight"
    /\ guildsLock = p
    /\ handler.pc = "done"
    /\ handler.called = <<pass[p].calls[Len(pass[p].calls)].guild>>

\* C13: the GUILDS mutex is not held while a call of a pass is in flight or
\* while the pass sleeps between two calls. (The TOKEN guard is dropped at
\* the end of the statement that clones the token, before the request.)
LockFreeDuringCallAndPause ==
  \A p \in Passes : pass[p].pc \in {"inflight", "sleep"} => guildsLock # p

\* C15: an announced guild never waits for a call or a pause of a pass:
\* while a call of a pass is in flight or a pass sleeps, a guild_create task
\* that is about to lock GUILDS can lock it and push at once.
DiscoveryNeverWaits ==
  \A g \in GuildIds :
    (Alive /\ pending[g] > 0
       /\ \E p \in Passes : pass[p].pc \in {"inflight", "sleep"}) =>
      ENABLED GuildCreatePush(g)

RegistryOnlyGrowsAtEnd ==
  [][/\ IsPrefix(GUILDS, GUILDS')
     /\ GUILDS' # GUILDS =>
          /\ \E g \in GuildIds :
               /\ GUILDS' = Append(GUILDS, g)
               /\ pending[g] > 0
               /\ pending' = [pending EXCEPT ![g] = @ - 1]
          /\ pass' = pass
          /\ handler' = handler]_vars

RegistryFullAfterFailures ==
  /\ Len(GUILDS) = MaxJoins
  /\ GUILDS[1] # GUILDS[MaxJoins]
  /\ handler.pc = "done"
  /\ handler.res = Err
  /\ \E p \in Passes : pass[p].failure.at > 0 /\ pass[p].returned >= 2

\* C19: no guild is in the registry twice, and no pass calls a guild twice.
RegistryDeduplicated ==
  /\ \A g \in GuildIds : Count(GUILDS, g) <= 1
  /\ \A p \in Passes : \A g \in GuildIds : Count(CallGuilds(p), g) <= 1

\* C20: over all the passes at most one call of a pass is in flight, and a
\* call of a pass starts only when the delay has elapsed since the call of
\* a pass before it returned, of the same pass or of an earlier one.
CronCallsPacedAcrossPasses ==
  /\ Cardinality(InFlight) <= 1
  /\ \A p \in Passes : \A i \in 1..Len(pass[p].calls) :
       \/ pass[p].calls[i].sinceCron >= DELAY_SECS
       \/ i = 1 /\ pass[p].calls[i].sinceCron = -1

LaterPassCallsAfterDelay ==
  \E p \in Passes :
    /\ pass[p].pc = "inflight"
    /\ Len(pass[p].calls) = 1
    /\ pass[p].calls[1].sinceCron >= DELAY_SECS
    /\ handler.pc = "inflight"

\* C14: an acknowledged command is in the end done with: the handler gets
\* to its report, or at least to an end (the panics of C3 and C10 are let
\* pass here), even if the endpoint never answers. (Stated for a process
\* started with a credential.)
AckedCommandComesToAnEnd ==
  (handler.pc = "acked" /\ TOKEN # <<>>) ~> (handler.pc \in {"done", "panicked"})

FirstIndex(v, g) ==
  CHOOSE i \in 1..Len(v) : v[i] = g /\ \A j \in 1..(i - 1) : v[j] # g

\* A pass has its call for the first entry of guild g in flight.
CalledAnew(g) ==
  /\ Count(GUILDS, g) > 0
  /\ \E p \in Passes :
       /\ pass[p].pc = "inflight"
       /\ Len(pass[p].calls) = FirstIndex(GUILDS, g)
       /\ pass[p].calls[Len(pass[p].calls)].guild = g

\* The first failed call of pass p was the call for guild g.
FailedIn(p, g) ==
  /\ pass[p].failure.at > 0
  /\ pass[p].failure.at <= Len(pass[p].calls)
  /\ pass[p].calls[pass[p].failure.at].guild = g

Instant(str) == str.date * DAY_SECS + str.time

Expiry(req) == Instant(req.body.dms_disabled_until.str)

\* C12: every request body has no invites_disabled_until and has a
\* dms_disabled_until that names the instant of the call plus 24 hours; so
\* of two requests for the same guild the later one asks for an expiry that
\* is not earlier.
ExpiryIsCallTimePlusDay ==
  \A g \in GuildIds :
    /\ \A i \in 1..Len(sent[g]) :
         /\ ~sent[g][i].body.invites_disabled_until.some
         /\ sent[g][i].body.dms_disabled_until.some
         /\ Expiry(sent[g][i]) = sent[g][i].at + 24 * 60 * 60
    /\ \A i, j \in 1..Len(sent[g]) : i < j => Expiry(sent[g][i]) <= Expiry(sent[g][j])

SecondExpiryOnLaterDate ==
  \E g \in GuildIds :
    /\ Len(sent[g]) = 2
    /\ sent[g][1].at < sent[g][2].at
    /\ sent[g][1].body.dms_disabled_until.str.date
         < sent[g][2].body.dms_disabled_until.str.date
    /\ sent[g][1].body.dms_disabled_until.str.time
         > sent[g][2].body.dms_disabled_until.str.time

====
